---- MODULE Spec2Model ----
(***************************************************************************)
(* A model of the command/response engine of async-imap: the Client and    *)
(* Session command surface of src/client.rs, the result streams of         *)
(* src/parse.rs and the unsolicited channel.  The server is an adversary:  *)
(* every read of the response stream yields any item of StreamItems.       *)
(***************************************************************************)
EXTENDS Integers, Sequences, FiniteSets, TLC

VARIABLES
    phase,        \* "Unauth": the caller holds a Client; "Auth": a Session
    request_ids,  \* Connection.request_ids.next (IdGenerator)
    written,      \* the lines written to the underlying stream, in order
    pc,           \* position of the running operation ("idle": none runs)
    cur,          \* the running (or last) operation: op, tag, sink, arguments
    result,       \* what the last operation returned to the caller
    rows,         \* items yielded by the current result stream
    unsolicited,  \* content of the unsolicited_responses channel
    inflight,     \* tags written whose tagged completion was not consumed yet
    last,         \* the last item the running operation pulled from the stream
    nread,        \* number of items pulled from the response stream
    eof,          \* the response stream has ended
    wire,         \* the frames the server sends, one per response, in order
    cut,          \* number of bytes the server sends before it closes
    read_pos,     \* number of bytes the underlying stream has delivered
    buffer,       \* ImapStream.buffer: its block and Buffer.offset
    pool,         \* the blocks of the byte pool: owner, size, bytes held
    decode_needs, \* ImapStream.decode_needs
    yielded,      \* what poll_next returned so far, in order
    polling,      \* poll_next is inside its read loop
    call,         \* the last Buffer operation: name, argument, outcome
    parser,       \* what the last decode got from the parser, if it called it
    fills         \* number of reads and Buffer operations of the run

\* The command/response engine.
cvars == <<phase, request_ids, written, pc, cur, result, rows, unsolicited,
           inflight, last, nread, eof>>
\* The byte layer: ImapStream and its Buffer.
svars == <<wire, cut, read_pos, buffer, pool, decode_needs, yielded, polling,
           call, parser, fills>>

vars == <<phase, request_ids, written, pc, cur, result, rows, unsolicited,
          inflight, last, nread, eof, wire, cut, read_pos, buffer, pool,
          decode_needs, yielded, polling, call, parser, fills>>

----------------------------------------------------------------------------
(* Bounds of the model. *)

MaxCmds == 2
MaxReads == 3
MaxNum == 2
\* The reads of a run that fills the unsolicited channel.
MaxBurst == 102
\* Reads of the underlying stream and Buffer operations of a run.
MaxFills == 4
\* Responses on the wire, polls of the stream, blocks of the pool.
MaxFrames == 2
MaxPolls == 4
MaxBlocks == 4
\* Tags the generator has handed out before a run starts.
MaxTags == 20000
\* Characters of a string argument.
MaxLen == 2

(* Program constants. *)

TagModulus == 10000
ChannelCapacity == 100
BLOCK_SIZE == 4096
\* 512 MiB
MAX_CAPACITY == 536870912

----------------------------------------------------------------------------
(* Strings are sequences of characters; "LF", "CR", "DQ" and "BS" stand for *)
(* line feed, carriage return, double quote and backslash.                  *)

Strs == { <<"a", "DQ", "BS">>, <<"a", "LF">>, <<"CR">> }

RECURSIVE Replace(_, _, _)
Replace(s, c, rep) ==
    IF s = <<>> THEN <<>>
    ELSE (IF Head(s) = c THEN rep ELSE <<Head(s)>>) \o Replace(Tail(s), c, rep)

Contains(s, c) == \E i \in 1..Len(s) : s[i] = c

\* quote! with the two replacements in the other order.
quote_dquote_first(x) ==
    <<"DQ">> \o Replace(Replace(x, "DQ", <<"BS", "DQ">>), "BS", <<"BS", "BS">>)
             \o <<"DQ">>

quote(x) ==
    <<"DQ">> \o Replace(Replace(x, "BS", <<"BS", "BS">>), "DQ", <<"BS", "DQ">>)
             \o <<"DQ">>

validate_str(value) ==
    LET quoted == quote(value) IN
    IF Contains(quoted, "LF") THEN [ok |-> FALSE, val |-> <<>>, ch |-> "LF"]
    ELSE IF Contains(quoted, "CR") THEN [ok |-> FALSE, val |-> <<>>, ch |-> "CR"]
    ELSE [ok |-> TRUE, val |-> quoted, ch |-> "-"]

----------------------------------------------------------------------------
(* Tags. *)

Digit(n) == <<"0", "1", "2", "3", "4", "5", "6", "7", "8", "9">>[n + 1]

\* A generator that hands out the same tag again.
IdGenerator_next_stuck(n) ==
    LET v == 1 % TagModulus IN
    <<"A", Digit(v \div 1000), Digit((v \div 100) % 10),
           Digit((v \div 10) % 10), Digit(v % 10)>>

\* A generator that counts on past 9999.
IdGenerator_next_unbounded(n) ==
    LET v == n + 1 IN
    (IF v >= TagModulus THEN <<"A", Digit((v \div 10000) % 10)>> ELSE <<"A">>)
    \o <<Digit((v \div 1000) % 10), Digit((v \div 100) % 10),
          Digit((v \div 10) % 10), Digit(v % 10)>>

IdGenerator_next(n) ==
    LET v == (n + 1) % TagModulus IN
    <<"A", Digit(v \div 1000), Digit((v \div 100) % 10),
           Digit((v \div 10) % 10), Digit(v % 10)>>

NoTag == <<>>

----------------------------------------------------------------------------
(* Items of the response stream. *)

Statuses == {"Ok", "No", "Bad", "Bye"}
Nums == 1..MaxNum
ServerTags == { IdGenerator_next(n) : n \in 0..(MaxCmds - 1) }

\* attrs: the attribute values of a FETCH response, <<>> for the others.
Item(k, t, s, c, i, n) ==
    [kind |-> k, tag |-> t, status |-> s, code |-> c, info |-> i, num |-> n,
     attrs |-> <<>>]

\* imap_proto::AttributeValue: the attributes that parse_fetches looks at.
Attr(name, val) == [name |-> name, val |-> val]
AttrLists ==
    { <<>>, << Attr("Uid", 74) >>, << Attr("Rfc822Size", 138), Attr("Uid", 74) >> }

\* The code and the information of a completion: (None, None) or both given.
CodeInfos == { <<"NoCode", "NoInfo">>, <<"c1", "i1">> }
DoneItems ==
    { Item("Done", t, s, ci[1], ci[2], 0) :
        t \in ServerTags, s \in Statuses, ci \in CodeInfos }
ContinueItems ==
    { Item("Continue", NoTag, "-", "NoCode", i, 0) : i \in {"NoInfo", "b64", "notb64"} }
FetchItems ==
    { [Item("Fetch", NoTag, "-", "NoCode", "NoInfo", n) EXCEPT !.attrs = a] :
        n \in Nums, a \in AttrLists }
NumberedItems ==
    FetchItems
    \cup { Item("Exists", NoTag, "-", "NoCode", "NoInfo", n) : n \in Nums }
    \cup { Item(k, NoTag, "-", "NoCode", "NoInfo", 1) : k \in {"Expunge", "Recent"} }
\* Response::Data: the untagged status responses `* OK ...`, `* BYE ...`.
DataItems ==
    { Item("Data", NoTag, s, "NoCode", "NoInfo", 0) : s \in {"Ok", "Bye"} }
PlainItems ==
    { Item(k, NoTag, "-", "NoCode", "NoInfo", 0) : k \in {"Status", "List"} }
    \cup DataItems

Responses == DoneItems \cup ContinueItems \cup NumberedItems \cup PlainItems
IoErrItem == Item("IoErr", NoTag, "-", "NoCode", "NoInfo", 0)
EofItem == Item("Eof", NoTag, "-", "NoCode", "NoInfo", 0)
NoItem == Item("None", NoTag, "-", "NoCode", "NoInfo", 0)

StreamItems == Responses \cup {IoErrItem, EofItem}

----------------------------------------------------------------------------
(* Results and records. *)

Res(k, c, i) == [kind |-> k, code |-> c, info |-> i]
ResOk == Res("Ok", "NoCode", "NoInfo")
ResNone == Res("None", "NoCode", "NoInfo")

Line(t, verb, args) == [tag |-> t, verb |-> verb, args |-> args]
Call(op, id, sink, args) == [op |-> op, id |-> id, sink |-> sink, args |-> args]

----------------------------------------------------------------------------
(* The byte layer: ImapStream over an underlying byte stream, and its      *)
(* Buffer.  A byte is identified by its position on the wire (1, 2, ...);  *)
(* a block holds the wire bytes lo .. lo + n - 1.  Sizes are in bytes.     *)

Max(a, b) == IF a > b THEN a ELSE b
Min(a, b) == IF a < b THEN a ELSE b

BlockIds == 1 .. MaxBlocks
Block(owner, size, lo, n) == [owner |-> owner, size |-> size, lo |-> lo, n |-> n]
\* A block that lies in the pool.
FreeBlock == Block("pool", 0, 0, 0)
NoCall == [op |-> "none", arg |-> 0, ok |-> TRUE]
BufferCall(op, arg, ok) == [op |-> op, arg |-> arg, ok |-> ok]
\* The parser's report to a decode on `used` bytes: "Ok", "Size" with min,
\* "Unknown", "Error", or "skipped" when the parser was not called.
Parse(report, min, used) == [report |-> report, min |-> min, used |-> used]
NoParse == Parse("none", 0, 0)

\* POOL.alloc: the pool hands out a block that nobody holds.  Blocks differ
\* in nothing but their number, so it is the free block of the least number.
POOL_alloc ==
    LET free == { id \in BlockIds : pool[id].owner = "pool" } IN
    { id \in free : \A j \in free : id <= j }

\* Buffer::grow without the ceiling.
grow_unchecked(size, num_bytes) ==
    LET min_size == size + num_bytes
        new_size == IF min_size % BLOCK_SIZE = 0 THEN min_size
                    ELSE min_size + (BLOCK_SIZE - (min_size % BLOCK_SIZE))
    IN  [ok |-> TRUE, size |-> new_size]

\* Buffer::grow: the new size of the block, or the error
\* `incoming data too large` with the block as it was.
grow(size, num_bytes) ==
    LET min_size == size + num_bytes
        new_size == IF min_size % BLOCK_SIZE = 0 THEN min_size
                    ELSE min_size + (BLOCK_SIZE - (min_size % BLOCK_SIZE))
    IN  IF new_size > MAX_CAPACITY
        THEN [ok |-> FALSE, size |-> size]
        ELSE [ok |-> TRUE, size |-> new_size]

\* Buffer::ensure_capacity that grows only for a size request.
ensure_capacity_sized(size, offset, required) ==
    LET extra_bytes_needed == Max(0, required - size)
    IN  IF extra_bytes_needed > 0
        THEN grow(size, Max(BLOCK_SIZE, extra_bytes_needed))
        ELSE [ok |-> TRUE, size |-> size]

\* Buffer::ensure_capacity on a block of `size` bytes with `offset` used.
ensure_capacity(size, offset, required) ==
    LET free_bytes == size - offset
        extra_bytes_needed == Max(0, required - size)
    IN  IF free_bytes = 0 \/ extra_bytes_needed > 0
        THEN grow(size, Max(BLOCK_SIZE, extra_bytes_needed))
        ELSE [ok |-> TRUE, size |-> size]

\* Buffer::extend_used: the new offset.
extend_used(size, offset, num_bytes) ==
    IF offset + num_bytes > size THEN size ELSE offset + num_bytes

\* Buffer::reset_with_data that copies nothing.
reset_with_data_empty(len) ==
    [size |-> BLOCK_SIZE, offset |-> 0]

\* Buffer::reset_with_data: size of the new block and the new offset.
reset_with_data(len) ==
    [size |-> IF len % BLOCK_SIZE = 0 THEN len + BLOCK_SIZE
              ELSE len + (BLOCK_SIZE - (len % BLOCK_SIZE)),
     offset |-> len]

\* ImapStream::new over a stream that has delivered nothing: Buffer::new
\* and decode_needs 0.
ImapStream_new ==
    /\ buffer = [block |-> 1, offset |-> 0]
    /\ pool = [id \in BlockIds |->
                 IF id = 1 THEN Block("buffer", BLOCK_SIZE, 1, 0) ELSE FreeBlock]
    /\ decode_needs = 0
    /\ read_pos = 0
    /\ yielded = <<>>
    /\ polling = FALSE
    /\ call = NoCall
    /\ parser = NoParse
    /\ fills = 0

(* The operations of Buffer, called one at a time on a Buffer::new. *)

\* Sizes handed to the operations.
ExtendSizes == {1, 4000, BLOCK_SIZE, MAX_CAPACITY}
RequiredSizes == {0, 1, 200, BLOCK_SIZE + 1, MAX_CAPACITY, MAX_CAPACITY + 1}
DataSizes == {0, 1, BLOCK_SIZE, MAX_CAPACITY - 1}

\* buf.extend_used(num_bytes), after num_bytes were written to the free slice.
Buffer_extend_used ==
    /\ fills < MaxFills
    /\ \E num_bytes \in ExtendSizes :
        LET b == pool[buffer.block]
            off == extend_used(b.size, buffer.offset, num_bytes)
        IN  /\ buffer' = [buffer EXCEPT !.offset = off]
            /\ pool' = [pool EXCEPT ![buffer.block].n = off]
            /\ call' = BufferCall("extend_used", num_bytes, TRUE)
    /\ fills' = fills + 1
    /\ UNCHANGED <<wire, cut, read_pos, decode_needs, yielded, polling, parser>>
    /\ UNCHANGED cvars

\* buf.ensure_capacity(required).
Buffer_ensure_capacity ==
    /\ fills < MaxFills
    /\ \E required \in RequiredSizes :
        LET b == pool[buffer.block]
            e == ensure_capacity(b.size, buffer.offset, required)
        IN  /\ pool' = [pool EXCEPT ![buffer.block].size = e.size]
            /\ call' = BufferCall("ensure_capacity", required, e.ok)
    /\ fills' = fills + 1
    /\ UNCHANGED <<wire, cut, read_pos, buffer, decode_needs, yielded, polling, parser>>
    /\ UNCHANGED cvars

\* buf.reset_with_data(data), data being the unparsed rest of the used
\* bytes: the old block is dropped, a new one is allocated.
Buffer_reset_with_data ==
    /\ fills < MaxFills
    /\ \E len \in DataSizes, id \in POOL_alloc :
        LET b == pool[buffer.block]
            r == reset_with_data(len)
        IN  /\ len < buffer.offset
            /\ buffer' = [block |-> id, offset |-> r.offset]
            /\ pool' = [pool EXCEPT
                          ![buffer.block] = FreeBlock,
                          ![id] = Block("buffer", r.size,
                                        b.lo + (buffer.offset - len), r.offset)]
            /\ call' = BufferCall("reset_with_data", len, TRUE)
    /\ fills' = fills + 1
    /\ UNCHANGED <<wire, cut, read_pos, decode_needs, yielded, polling, parser>>
    /\ UNCHANGED cvars

(* The wire: one frame per response.  A frame that is not good is a line   *)
(* the parser rejects.                                                     *)

FrameLens == {3, 5000, MAX_CAPACITY + 1}
Frame(len, good) == [len |-> len, good |-> good]
Frames == { Frame(len, good) : len \in FrameLens, good \in BOOLEAN }
Wires == UNION { [1 .. k -> Frames] : k \in 1 .. MaxFrames }
\* Sizes of the reads of the underlying stream (at most the free slice and
\* at most what the server has sent).
Chunks == {1, 3000, MAX_CAPACITY}

RECURSIVE FrameEnd(_, _)
\* Wire position of the last byte of frame i.
FrameEnd(w, i) == IF i = 0 THEN 0 ELSE FrameEnd(w, i - 1) + w[i].len
FrameStart(w, i) == FrameEnd(w, i - 1) + 1
\* Where the server may close the stream.
Cuts(w) ==
    { c \in {0, 1, FrameEnd(w, 1), FrameEnd(w, Len(w)) - 1, FrameEnd(w, Len(w))} :
        c <= FrameEnd(w, Len(w)) }

\* imap_proto::parser::parse_response on the bytes lo .. lo + n - 1.
parse_response(lo, n) ==
    LET starts == { i \in 1 .. Len(wire) : FrameStart(wire, i) = lo }
        i == CHOOSE j \in starts : TRUE
        none == [kind |-> "Error", frame |-> 0, consumed |-> 0, missing |-> 0]
    IN  IF n = 0 THEN [none EXCEPT !.kind = "Incomplete", !.missing = 1]
        ELSE IF starts = {} THEN none
        ELSE IF ~wire[i].good THEN none
        ELSE IF lo + n - 1 >= FrameEnd(wire, i)
        THEN [kind |-> "Ok", frame |-> i, consumed |-> wire[i].len, missing |-> 0]
        ELSE [none EXCEPT !.kind = "Incomplete",
                          !.missing = FrameEnd(wire, i) - (lo + n - 1)]

Decoded(res, needs, frame, remaining, report, min) ==
    [res |-> res, needs |-> needs, frame |-> frame, remaining |-> remaining,
     report |-> report, min |-> min]

\* A decode that calls the parser only with more bytes than decode_needs.
decode_strict(b, offset, needs) ==
    IF offset <= needs
    THEN { Decoded("None", needs, 0, offset, "skipped", 0) }
    ELSE LET p == parse_response(b.lo, offset) IN
         CASE p.kind = "Ok" ->
                { Decoded("Some", 0, p.frame, offset - p.consumed, "Ok", 0) }
           [] p.kind = "Incomplete" ->
                { Decoded("None", 0, 0, offset, "Unknown", 0) }
                \cup { Decoded("None", offset + min, 0, offset, "Size", min) :
                         min \in {1, p.missing} }
           [] OTHER ->
                { Decoded("Err", 0, 0, offset, "Error", 0) }

\* ImapStream::decode on a buffer block b with `offset` bytes used: the
\* possible outcomes.  The parser's Needed is Unknown or a Size that is a
\* lower bound of what is missing.
decode(b, offset, needs) ==
    IF offset < needs
    THEN { Decoded("None", needs, 0, offset, "skipped", 0) }
    ELSE LET p == parse_response(b.lo, offset) IN
         CASE p.kind = "Ok" ->
                { Decoded("Some", 0, p.frame, offset - p.consumed, "Ok", 0) }
           [] p.kind = "Incomplete" ->
                { Decoded("None", 0, 0, offset, "Unknown", 0) }
                \cup { Decoded("None", offset + min, 0, offset, "Size", min) :
                         min \in {1, p.missing} }
           [] OTHER ->
                { Decoded("Err", 0, 0, offset, "Error", 0) }

Yield(kind, frame, block, lo, n) ==
    [kind |-> kind, frame |-> frame, block |-> block, lo |-> lo, n |-> n,
     held |-> TRUE]
YieldErr(kind) == Yield(kind, 0, 0, 0, 0)

\* decode that parses in place: the response points into the block the
\* buffer keeps.
take_block_shared(bid) == {bid}

\* Buffer::take_block and reset_with_data in decode: the block goes to the
\* ResponseData, the buffer continues in a block from the pool.
take_block(bid) == POOL_alloc

\* A failed decode that throws the buffered bytes away.
return_block_emptied(offset) == 0

\* Buffer::return_block after a decode that built no response: the block is
\* back in the buffer, with the offset it had.
return_block(offset) == offset

\* The end of a decode with outcome o, the buffer being block bid with
\* content b and `offset` bytes used.
decoded(o, bid, b, offset) ==
    /\ decode_needs' = o.needs
    /\ parser' = Parse(o.report, o.min, offset)
    /\ CASE o.res = "Some" ->
              \E id \in take_block(bid) :
                LET r == reset_with_data(o.remaining) IN
                /\ pool' = [pool EXCEPT
                              ![bid] = [b EXCEPT !.owner = "response"],
                              ![id] = Block("buffer", r.size,
                                            b.lo + (offset - o.remaining),
                                            r.offset)]
                /\ buffer' = [block |-> id, offset |-> r.offset]
                /\ yielded' = Append(yielded,
                                     Yield("Response", o.frame, bid, b.lo, b.n))
                /\ polling' = FALSE
         [] o.res = "None" ->
                /\ pool' = [pool EXCEPT ![bid] = b]
                /\ buffer' = [block |-> bid, offset |-> return_block(offset)]
                /\ polling' = TRUE
                /\ UNCHANGED yielded
         [] OTHER ->
                /\ pool' = [pool EXCEPT ![bid] = b]
                /\ buffer' = [block |-> bid, offset |-> return_block(offset)]
                /\ yielded' = Append(yielded, YieldErr("ParseError"))
                /\ polling' = FALSE

\* poll_next, up to the loop: a response is decoded from what is buffered.
poll_next ==
    /\ buffer.block # 0
    /\ ~polling
    /\ Len(yielded) < MaxPolls
    /\ \E o \in decode(pool[buffer.block], buffer.offset, decode_needs) :
        decoded(o, buffer.block, pool[buffer.block], buffer.offset)
    /\ UNCHANGED <<wire, cut, read_pos, call, fills>>
    /\ UNCHANGED cvars

\* A zero-byte read that always ends the stream.
zero_read_ends(used) == YieldErr("End")

\* poll_next on a zero-byte read: what is returned.
zero_read(used) ==
    IF used > 0 THEN YieldErr("UnexpectedEof") ELSE YieldErr("End")

\* poll_next, one turn of the loop: ensure_capacity, one read of the
\* underlying stream, extend_used, decode.
poll_read ==
    /\ buffer.block # 0
    /\ polling
    /\ fills < MaxFills
    /\ fills' = fills + 1
    /\ LET bid == buffer.block
           b == pool[bid]
           e == ensure_capacity(b.size, buffer.offset, decode_needs)
           avail == cut - read_pos
       IN
        /\ call' = BufferCall("ensure_capacity", decode_needs, e.ok)
        /\ IF ~e.ok
           THEN /\ yielded' = Append(yielded, YieldErr("TooLarge"))
                /\ polling' = FALSE
                /\ UNCHANGED <<buffer, pool, decode_needs, read_pos, parser>>
           ELSE \E c \in Chunks :
                LET num_bytes_read == Min(c, Min(e.size - buffer.offset, avail))
                    off == extend_used(e.size, buffer.offset, num_bytes_read)
                    b2 == [b EXCEPT !.size = e.size, !.n = off,
                                    !.lo = IF buffer.offset = 0
                                           THEN read_pos + 1 ELSE b.lo]
                IN  IF num_bytes_read = 0
                    THEN /\ pool' = [pool EXCEPT ![bid].size = e.size]
                         /\ yielded' = Append(yielded, zero_read(buffer.offset))
                         /\ polling' = FALSE
                         /\ UNCHANGED <<buffer, decode_needs, read_pos, parser>>
                    ELSE /\ read_pos' = read_pos + num_bytes_read
                         /\ \E o \in decode(b2, off, decode_needs) :
                             decoded(o, bid, b2, off)
    /\ UNCHANGED <<wire, cut>>
    /\ UNCHANGED cvars

\* The caller drops a ResponseData: its block goes back to the pool.
drop_response ==
    /\ \E k \in 1 .. Len(yielded) :
        /\ yielded[k].kind = "Response"
        /\ yielded[k].held
        /\ yielded' = [yielded EXCEPT ![k].held = FALSE]
        /\ pool' = [pool EXCEPT ![yielded[k].block] = FreeBlock]
    /\ UNCHANGED <<wire, cut, read_pos, buffer, decode_needs, polling, call, parser, fills>>
    /\ UNCHANGED cvars

\* The ImapStream is dropped, and its buffer with it.
drop_stream ==
    /\ buffer.block # 0
    /\ buffer' = [block |-> 0, offset |-> 0]
    /\ pool' = [pool EXCEPT ![buffer.block] = FreeBlock]
    /\ polling' = FALSE
    /\ UNCHANGED <<wire, cut, read_pos, decode_needs, yielded, call, parser, fills>>
    /\ UNCHANGED cvars

----------------------------------------------------------------------------
(* The decoder of codec.rs: ImapCodec on the BytesMut of a framed stream.  *)
(* The buffer holds the wire bytes lo .. lo + offset - 1 and grows as      *)
(* bytes are appended; decode_needs stands for decode_need_message_bytes.  *)

\* ImapCodec::decode on a buffer of `offset` bytes: the possible outcomes.
ImapCodec_decode(b, offset, needs) ==
    IF needs > offset
    THEN { Decoded("None", needs, 0, offset, "skipped", 0) }
    ELSE LET p == parse_response(b.lo, offset) IN
         CASE p.kind = "Ok" ->
                { Decoded("Some", 0, p.frame, offset - p.consumed, "Ok", 0) }
           [] p.kind = "Incomplete" ->
                { Decoded("None", needs, 0, offset, "Unknown", 0) }
                \cup { Decoded("None", min, 0, offset, "Size", min) :
                         min \in {1, p.missing} }
           [] OTHER ->
                { Decoded("Err", needs, 0, offset, "Error", 0) }

\* The end of an ImapCodec::decode with outcome o: split_to(rsp_len) leaves
\* the rest in the buffer, the response owns a copy of its bytes.
ImapCodec_decoded(o, bid, b, offset) ==
    /\ decode_needs' = o.needs
    /\ parser' = Parse(o.report, o.min, offset)
    /\ buffer' = [block |-> bid, offset |-> o.remaining]
    /\ pool' = [pool EXCEPT ![bid] =
                  [b EXCEPT !.lo = b.lo + (offset - o.remaining),
                            !.n = o.remaining]]
    /\ CASE o.res = "Some" ->
                /\ yielded' = Append(yielded,
                                     Yield("Response", o.frame, 0, b.lo,
                                           offset - o.remaining))
                /\ polling' = FALSE
         [] o.res = "None" ->
                /\ polling' = TRUE
                /\ UNCHANGED yielded
         [] OTHER ->
                /\ yielded' = Append(yielded, YieldErr("ParseError"))
                /\ polling' = FALSE

\* The framed stream is polled: decode on what is buffered.
ImapCodec_poll_next ==
    /\ ~polling
    /\ Len(yielded) < MaxPolls
    /\ \E o \in ImapCodec_decode(pool[buffer.block], buffer.offset, decode_needs) :
        ImapCodec_decoded(o, buffer.block, pool[buffer.block], buffer.offset)
    /\ UNCHANGED <<wire, cut, read_pos, call, fills>>
    /\ UNCHANGED cvars

\* The framed stream reads: the bytes are appended, then decode; a read of
\* zero bytes ends the stream.
ImapCodec_poll_read ==
    /\ polling
    /\ fills < MaxFills
    /\ fills' = fills + 1
    /\ LET bid == buffer.block
           b == pool[bid]
           avail == cut - read_pos
       IN  IF avail = 0
           THEN /\ yielded' = Append(yielded, zero_read(buffer.offset))
                /\ polling' = FALSE
                /\ UNCHANGED <<buffer, pool, decode_needs, read_pos, parser>>
           ELSE \E c \in Chunks :
                LET num_bytes_read == Min(c, avail)
                    off == buffer.offset + num_bytes_read
                    b2 == [b EXCEPT !.size = Max(b.size, off), !.n = off,
                                    !.lo = IF buffer.offset = 0
                                           THEN read_pos + 1 ELSE b.lo]
                IN  /\ read_pos' = read_pos + num_bytes_read
                    /\ \E o \in ImapCodec_decode(b2, off, decode_needs) :
                        ImapCodec_decoded(o, bid, b2, off)
    /\ UNCHANGED <<wire, cut, call>>
    /\ UNCHANGED cvars

----------------------------------------------------------------------------
\* A Connection whose IdGenerator has handed out n tags, with no command
\* running.
Connection_after(n) ==
    /\ phase = "Unauth"
    /\ request_ids = n
    /\ written = <<>>
    /\ pc = "idle"
    /\ cur = Call("none", NoTag, FALSE, <<>>)
    /\ result = ResNone
    /\ rows = <<>>
    /\ unsolicited = <<>>
    /\ inflight = {}
    /\ last = NoItem
    /\ nread = 0
    /\ eof = FALSE

\* Client::new: a Connection with a fresh IdGenerator, nothing written.
Client_new == Connection_after(0)

Init ==
    /\ Client_new
    /\ ImapStream_new
    /\ wire = <<>>
    /\ cut = 0

----------------------------------------------------------------------------
(* Connection primitives. *)

\* Connection::run_command: take the next tag, write `tag SP command CRLF`;
\* the generator hands out at most `limit` tags.
run_command_limit(op, verb, wargs, rawargs, sink, nextpc, limit) ==
    /\ UNCHANGED svars
    /\ pc = "idle"
    /\ request_ids < limit
    /\ LET id == IdGenerator_next(request_ids) IN
        /\ request_ids' = request_ids + 1
        /\ written' = Append(written, Line(id, verb, wargs))
        /\ inflight' = inflight \cup {id}
        /\ cur' = Call(op, id, sink, rawargs)
    /\ pc' = nextpc
    /\ result' = ResNone
    /\ rows' = <<>>
    /\ last' = NoItem
    /\ UNCHANGED <<phase, unsolicited, nread, eof>>

\* A run issues at most MaxCmds commands.
run_command(op, verb, wargs, rawargs, sink, nextpc) ==
    run_command_limit(op, verb, wargs, rawargs, sink, nextpc, MaxCmds)

\* An argument is refused by validate_str before run_command is reached.
Rejected(op, rawargs, ch) ==
    /\ UNCHANGED svars
    /\ pc = "idle"
    /\ cur' = Call(op, NoTag, FALSE, rawargs)
    /\ result' = Res("Validate", ch, "NoInfo")
    /\ rows' = <<>>
    /\ last' = NoItem
    /\ UNCHANGED <<phase, request_ids, written, pc, unsolicited, inflight,
                   nread, eof>>

\* One item is pulled from the response stream (ImapStream as a Stream);
\* the server sends items of `items`, and the run has at most `bound` reads.
read_from(item, items, bound) ==
    /\ UNCHANGED svars
    /\ nread < bound
    /\ item \in (IF eof THEN {EofItem} ELSE items)
    /\ last' = item
    /\ nread' = nread + 1
    /\ eof' = (eof \/ item.kind = "Eof")
    /\ inflight' = IF item.kind = "Done" THEN inflight \ {item.tag} ELSE inflight

read_response(item) == read_from(item, StreamItems, MaxReads)

\* handle_unilateral that reports every number as RECENT.
handle_unilateral_recent(item) ==
    IF item.kind \in {"Status", "Recent", "Exists", "Expunge"}
    THEN [push |-> TRUE, msg |-> [kind |-> "Recent", num |-> item.num], rest |-> "None"]
    ELSE [push |-> FALSE, msg |-> [kind |-> "-", num |-> 0], rest |-> "Some"]

\* handle_unilateral: what is pushed on the channel, and whether the
\* response is handed back to the caller (Some) or was taken (None).
handle_unilateral(item) ==
    IF item.kind \in {"Status", "Recent", "Exists", "Expunge"}
    THEN [push |-> TRUE, msg |-> [kind |-> item.kind, num |-> item.num], rest |-> "None"]
    ELSE [push |-> FALSE, msg |-> [kind |-> "-", num |-> 0], rest |-> "Some"]

\* A channel without a capacity: send never suspends.
CanSend_unbounded == TRUE

\* sync::Sender::send on the bounded channel: suspends while it is full.
CanSend == Len(unsolicited) < ChannelCapacity

\* check_ok that takes any tagged OK for the completion of its command.
check_ok_step_anytag(item, id) ==
    IF item.kind = "Eof" THEN Res("ConnectionLost", "NoCode", "NoInfo")
    ELSE IF item.kind = "IoErr" THEN Res("Io", "NoCode", "NoInfo")
    ELSE IF item.kind = "Done" THEN
        CASE item.status = "Ok" -> ResOk
          [] item.status = "Bad" -> Res("Bad", item.code, item.info)
          [] item.status = "No" -> Res("No", item.code, item.info)
          [] OTHER -> Res("Io", item.code, item.info)
    ELSE Res("continue", "NoCode", "NoInfo")

\* The outcome of check_ok on one item: "continue" or the returned result.
check_ok_step(item, id) ==
    IF item.kind = "Eof" THEN Res("ConnectionLost", "NoCode", "NoInfo")
    ELSE IF item.kind = "IoErr" THEN Res("Io", "NoCode", "NoInfo")
    ELSE IF item.kind = "Done" THEN
        CASE item.status = "Ok" ->
                IF item.tag # id THEN Res("continue", "NoCode", "NoInfo") ELSE ResOk
          [] item.status = "Bad" -> Res("Bad", item.code, item.info)
          [] item.status = "No" -> Res("No", item.code, item.info)
          [] OTHER -> Res("Io", item.code, item.info)
    ELSE Res("continue", "NoCode", "NoInfo")

\* Connection::check_ok, one iteration of its loop.  On success of LOGIN
\* the Client becomes a Session (Client::login); every error of LOGIN gives
\* the Client back (ok_or_unauth_client_err).
check_ok ==
    /\ pc = "check_ok"
    /\ \E item \in StreamItems :
        /\ read_response(item)
        /\ LET r == check_ok_step(item, cur.id)
               h == handle_unilateral(item) IN
            IF r.kind = "continue"
            THEN /\ UNCHANGED <<pc, result, phase>>
                 /\ IF item.kind = "Done" /\ cur.sink /\ h.push
                    THEN CanSend /\ unsolicited' = Append(unsolicited, h.msg)
                    ELSE UNCHANGED unsolicited
            ELSE /\ pc' = "idle"
                 /\ result' = r
                 /\ phase' = IF cur.op = "login" /\ r.kind = "Ok" THEN "Auth" ELSE phase
                 /\ UNCHANGED unsolicited
    /\ UNCHANGED <<request_ids, written, cur, rows>>

----------------------------------------------------------------------------
(* Client. *)

login(u, p) ==
    /\ phase = "Unauth"
    /\ LET vu == validate_str(u)
           vp == validate_str(p) IN
        IF ~vu.ok THEN Rejected("login", <<u, p>>, vu.ch)
        ELSE IF ~vp.ok THEN Rejected("login", <<u, p>>, vp.ch)
        ELSE run_command("login", "LOGIN", <<vu.val, vp.val>>, <<u, p>>, FALSE, "check_ok")

authenticate ==
    /\ phase = "Unauth"
    /\ run_command("authenticate", "AUTHENTICATE", <<>>, <<>>, FALSE, "auth_first")

\* Client::do_auth_handshake, the first read.
do_auth_handshake ==
    /\ pc = "auth_first"
    /\ \E item \in StreamItems :
        /\ read_response(item)
        /\ CASE item.kind = "Eof" ->
                    /\ pc' = "idle" /\ result' = Res("ConnectionLost", "NoCode", "NoInfo")
                    /\ UNCHANGED <<phase, written>>
             [] item.kind = "IoErr" ->
                    /\ pc' = "idle" /\ result' = Res("Io", "NoCode", "NoInfo")
                    /\ UNCHANGED <<phase, written>>
             [] item.kind = "Continue" /\ item.info = "notb64" ->
                    /\ pc' = "idle" /\ result' = Res("Parse", "NoCode", "NoInfo")
                    /\ UNCHANGED <<phase, written>>
             [] item.kind = "Continue" /\ item.info # "notb64" ->
                    /\ written' = Append(written, Line(NoTag, "AUTHRESPONSE", <<>>))
                    /\ pc' = "idle" /\ result' = ResOk /\ phase' = "Auth"
             [] OTHER ->
                    /\ pc' = "auth_second"
                    /\ UNCHANGED <<phase, written, result>>
    /\ UNCHANGED <<request_ids, cur, rows, unsolicited>>

\* Client::do_auth_handshake, the read after a first response that was no
\* Continue.
do_auth_handshake_second ==
    /\ pc = "auth_second"
    /\ \E item \in StreamItems :
        /\ read_response(item)
        /\ IF item.kind = "Eof"
           THEN /\ result' = Res("ConnectionLost", "NoCode", "NoInfo")
                /\ UNCHANGED phase
           ELSE /\ result' = ResOk
                /\ phase' = "Auth"
    /\ pc' = "idle"
    /\ UNCHANGED <<request_ids, written, cur, rows, unsolicited>>

----------------------------------------------------------------------------
(* Session: commands completed by check_ok. *)

\* Session::run_command_and_check_ok: run_command, then check_ok with the
\* session's sender as the sink.
run_command_and_check_ok(op, verb, wargs, rawargs) ==
    /\ phase = "Auth"
    /\ run_command(op, verb, wargs, rawargs, TRUE, "check_ok")

\* A command whose only argument goes through validate_str.
validated_command(op, verb, name, nextpc) ==
    /\ phase = "Auth"
    /\ LET v == validate_str(name) IN
        IF ~v.ok THEN Rejected(op, <<name>>, v.ch)
        ELSE run_command(op, verb, <<v.val>>, <<name>>, TRUE, nextpc)

logout == run_command_and_check_ok("logout", "LOGOUT", <<>>, <<>>)
check == run_command_and_check_ok("check", "CHECK", <<>>, <<>>)
close == run_command_and_check_ok("close", "CLOSE", <<>>, <<>>)

create(name) == validated_command("create", "CREATE", name, "check_ok")
delete(name) == validated_command("delete", "DELETE", name, "check_ok")

rename(from, to) ==
    run_command_and_check_ok("rename", "RENAME", <<quote(from), quote(to)>>, <<from, to>>)
subscribe(mailbox) ==
    run_command_and_check_ok("subscribe", "SUBSCRIBE", <<quote(mailbox)>>, <<mailbox>>)
unsubscribe(mailbox) ==
    run_command_and_check_ok("unsubscribe", "UNSUBSCRIBE", <<quote(mailbox)>>, <<mailbox>>)

copy(name) == run_command_and_check_ok("copy", "COPY", <<name>>, <<name>>)
uid_copy(name) == run_command_and_check_ok("uid_copy", "UID COPY", <<name>>, <<name>>)

mv(name) == validated_command("mv", "MOVE", name, "check_ok")
uid_mv(name) == validated_command("uid_mv", "UID MOVE", name, "check_ok")

----------------------------------------------------------------------------
(* Session: commands whose collector is unimplemented!() in src/parse.rs:  *)
(* the command is written and the task panics in the collector.            *)

select(name) == validated_command("select", "SELECT", name, "panicked")
examine(name) == validated_command("examine", "EXAMINE", name, "panicked")
status(name) == validated_command("status", "STATUS", name, "panicked")

unimplemented_command(op, verb) ==
    /\ phase = "Auth"
    /\ run_command(op, verb, <<>>, <<>>, TRUE, "panicked")

noop == unimplemented_command("noop", "NOOP")
expunge == unimplemented_command("expunge", "EXPUNGE")
uid_expunge == unimplemented_command("uid_expunge", "UID EXPUNGE")
search == unimplemented_command("search", "SEARCH")
uid_search == unimplemented_command("uid_search", "UID SEARCH")

----------------------------------------------------------------------------
(* Session: commands that return a result stream. *)

\* Option<&str>: <<>> is None, <<s>> is Some(s).
OptStrs == { <<>> } \cup { <<s>> : s \in { <<"a">>, <<"a", "LF">> } }
unwrap_or(o, d) == IF o = <<>> THEN d ELSE o[1]

stream_command(op, verb, wargs, rawargs, nextpc) ==
    /\ phase = "Auth"
    /\ run_command(op, verb, wargs, rawargs, TRUE, nextpc)

fetch == stream_command("fetch", "FETCH", <<>>, <<>>, "fetches")
uid_fetch == stream_command("uid_fetch", "UID FETCH", <<>>, <<>>, "fetches")
store == stream_command("store", "STORE", <<>>, <<>>, "fetches")
uid_store == stream_command("uid_store", "UID STORE", <<>>, <<>>, "fetches")

list(reference_name, mailbox_pattern) ==
    stream_command("list", "LIST",
                   <<quote(unwrap_or(reference_name, <<>>)),
                     unwrap_or(mailbox_pattern, <<"DQ", "DQ">>)>>,
                   <<unwrap_or(reference_name, <<>>), unwrap_or(mailbox_pattern, <<>>)>>,
                   "names")
lsub(reference_name, mailbox_pattern) ==
    stream_command("lsub", "LSUB",
                   <<quote(unwrap_or(reference_name, <<>>)),
                     unwrap_or(mailbox_pattern, <<>>)>>,
                   <<unwrap_or(reference_name, <<>>), unwrap_or(mailbox_pattern, <<>>)>>,
                   "names")

\* Option<u32>: <<>> is None, <<n>> is Some(n).
None == <<>>
Some(n) == <<n>>

Row(k, n) == [kind |-> k, num |-> n, uid |-> None, size |-> None]

\* The last value of the attribute `name` in the list, or `d` if there is none.
RECURSIVE attr_fold(_, _, _)
attr_fold(attrs, name, d) ==
    IF attrs = <<>> THEN d
    ELSE attr_fold(Tail(attrs), name,
                   IF attrs[1].name = name THEN Some(attrs[1].val) ELSE d)

\* The Fetch that parse_fetches builds for `* num FETCH (attrs)`: the row
\* keeps no attribute (`fetch: Vec::new()`), and uid and size are set from
\* the attributes the row keeps.
Fetch_new(num, attrs) ==
    LET kept == <<>> IN
    [kind |-> "Fetch", num |-> num,
     uid |-> attr_fold(kept, "Uid", None),
     size |-> attr_fold(kept, "Rfc822Size", None)]

\* What the filter_map closure of parse_fetches / parse_names makes of a
\* response that take_while let through; `own` is the kind it maps to a row.
\* yield: <<>> (nothing) or <<row>>.
stream_map(item, own) ==
    LET h == handle_unilateral(item) IN
    IF item.kind = own
    THEN [push |-> FALSE, msg |-> h.msg,
          yield |-> << IF own = "Fetch" THEN Fetch_new(item.num, item.attrs)
                       ELSE Row(own, item.num) >>]
    ELSE IF h.rest = "None"
    THEN [push |-> TRUE, msg |-> h.msg, yield |-> <<>>]
    ELSE IF item.kind = "Fetch"
    THEN [push |-> FALSE, msg |-> h.msg, yield |-> <<>>]
    ELSE [push |-> FALSE, msg |-> h.msg, yield |-> <<Row("Err", 0)>>]

\* take_while of parse_fetches / parse_names: the stream goes on for this
\* item.  A read error ends the stream (ConnStream::poll_next).
take_while(item) == item.kind \notin {"Done", "Eof", "IoErr"}

\* One poll of the stream returned by parse_fetches or parse_names.
stream_poll(own, items, bound) ==
    \E item \in items \cup {EofItem} :
        /\ read_from(item, items, bound)
        /\ IF take_while(item)
           THEN LET m == stream_map(item, own) IN
                /\ rows' = rows \o m.yield
                /\ IF m.push
                   THEN CanSend /\ unsolicited' = Append(unsolicited, m.msg)
                   ELSE UNCHANGED unsolicited
                /\ UNCHANGED <<pc, result>>
           ELSE /\ pc' = "idle"
                /\ result' = Res("StreamEnd", "NoCode", "NoInfo")
                /\ UNCHANGED <<rows, unsolicited>>
        /\ UNCHANGED <<phase, request_ids, written, cur>>

stream_next(own) == stream_poll(own, StreamItems, MaxReads)

parse_fetches == pc = "fetches" /\ stream_next("Fetch")
parse_names == pc = "names" /\ stream_next("List")

----------------------------------------------------------------------------
(* Session::append. *)

Contents == { <<"x", "y">> }

append(mailbox, content) ==
    /\ phase = "Auth"
    /\ run_command("append", "APPEND",
                   <<(<<"DQ">> \o mailbox \o <<"DQ">>), <<Digit(Len(content))>>>>,
                   <<mailbox, content>>, TRUE, "append_continue")

\* An append that sends the literal whatever the server answered.
append_continue_eager ==
    /\ pc = "append_continue"
    /\ \E item \in StreamItems :
        /\ read_response(item)
        /\ CASE item.kind \in {"IoErr", "Eof"} ->
                    /\ pc' = "idle" /\ result' = Res("Io", "NoCode", "NoInfo")
                    /\ UNCHANGED written
             [] OTHER ->
                    /\ written' = Append(written, Line(NoTag, "LITERAL", <<cur.args[2]>>))
                    /\ pc' = "append_completion"
                    /\ UNCHANGED result
    /\ UNCHANGED <<phase, request_ids, cur, rows, unsolicited>>

\* The read that follows `APPEND mailbox {N}`.
append_continue ==
    /\ pc = "append_continue"
    /\ \E item \in StreamItems :
        /\ read_response(item)
        /\ CASE item.kind = "Continue" ->
                    /\ written' = Append(written, Line(NoTag, "LITERAL", <<cur.args[2]>>))
                    /\ pc' = "append_completion"
                    /\ UNCHANGED result
             [] item.kind = "IoErr" ->
                    /\ pc' = "idle" /\ result' = Res("Io", "NoCode", "NoInfo")
                    /\ UNCHANGED written
             [] OTHER ->
                    /\ pc' = "idle" /\ result' = Res("Append", "NoCode", "NoInfo")
                    /\ UNCHANGED written
    /\ UNCHANGED <<phase, request_ids, cur, rows, unsolicited>>

\* The read that follows the literal: read_response().await.transpose()?
append_completion ==
    /\ pc = "append_completion"
    /\ \E item \in StreamItems :
        /\ read_response(item)
        /\ result' = IF item.kind = "IoErr" THEN Res("Io", "NoCode", "NoInfo") ELSE ResOk
    /\ pc' = "idle"
    /\ UNCHANGED <<phase, request_ids, written, cur, rows, unsolicited>>

----------------------------------------------------------------------------
(* extensions::idle::Handle.  The Handle owns the Session (phase "Idle");  *)
(* its id is cur.id: NoTag until init has written the IDLE command.        *)

\* What the server sends to an idling client: the completions, and one
\* response of each kind that the handle tells apart.
IdleItems ==
    { d \in DoneItems : d.status # "Bye" }
    \cup { Item("Continue", NoTag, "-", "NoCode", "NoInfo", 0) }
    \cup DataItems
    \cup { Item("Exists", NoTag, "-", "NoCode", "NoInfo", 1),
           Item("Fetch", NoTag, "-", "NoCode", "NoInfo", 1) }
    \cup { IoErrItem, EofItem }

\* Session::idle: Handle::new(session), with id None.  The reads of a run
\* are counted from here on.
idle ==
    /\ UNCHANGED svars
    /\ phase = "Auth"
    /\ pc = "idle"
    /\ phase' = "Idle"
    /\ cur' = Call("idle", NoTag, TRUE, <<>>)
    /\ result' = ResNone
    /\ rows' = <<>>
    /\ last' = NoItem
    /\ nread' = 0
    /\ UNCHANGED <<request_ids, written, pc, unsolicited, inflight, eof>>

\* Handle::init, up to the loop: the IDLE command is written, id = Some(id).
init ==
    /\ phase = "Idle"
    /\ run_command("init", "IDLE", <<>>, <<>>, TRUE, "init")

\* Handle::init, one response of its loop: where it goes on and with what.
init_step(item, id) ==
    CASE item.kind = "IoErr" -> [pc |-> "idle", res |-> Res("Io", "NoCode", "NoInfo")]
      [] item.kind = "Eof" ->
            [pc |-> "idle", res |-> Res("ConnectionRefused", "NoCode", "NoInfo")]
      [] item.kind = "Continue" -> [pc |-> "idle", res |-> ResOk]
      [] item.kind = "Done" /\ item.tag = id /\ item.status = "Bad" ->
            IF item.info = "NoInfo"
            THEN [pc |-> "panicked", res |-> ResNone]
            ELSE [pc |-> "idle", res |-> Res("ConnectionRefused", "NoCode", item.info)]
      [] OTHER -> [pc |-> "init", res |-> ResNone]

init_wait ==
    /\ pc = "init"
    /\ \E item \in IdleItems :
        /\ read_from(item, IdleItems, MaxReads)
        /\ LET r == init_step(item, cur.id)
               h == handle_unilateral(item) IN
            /\ pc' = r.pc
            /\ result' = r.res
            /\ IF r.pc = "init" /\ h.push
               THEN CanSend /\ unsolicited' = Append(unsolicited, h.msg)
               ELSE UNCHANGED unsolicited
    /\ UNCHANGED <<phase, request_ids, written, cur, rows>>

\* Handle::wait and Handle::wait_with_timeout: the assertion on id, then the
\* future is pending and the caller holds the StopSource.
start_wait(nextpc) ==
    /\ UNCHANGED svars
    /\ phase = "Idle"
    /\ pc = "idle"
    /\ pc' = IF cur.id = NoTag THEN "panicked" ELSE nextpc
    /\ result' = ResNone
    /\ last' = NoItem
    /\ UNCHANGED <<phase, request_ids, written, cur, rows, unsolicited,
                   inflight, nread, eof>>

wait == start_wait("wait")
wait_with_timeout == start_wait("wait_timeout")

\* The caller drops the StopSource while the future is pending.
drop_interrupt ==
    /\ UNCHANGED svars
    /\ pc \in {"wait", "wait_timeout"}
    /\ pc' = IF pc = "wait" THEN "wait_stopped" ELSE "wait_timeout_stopped"
    /\ UNCHANGED <<phase, request_ids, written, cur, result, rows, unsolicited,
                   inflight, last, nread, eof>>

\* The future of wait, one response of its loop.
wait_step(item) ==
    CASE item.kind = "Eof" -> Res("ManualInterrupt", "NoCode", "NoInfo")
      [] item.kind = "IoErr" -> Res("Io", "NoCode", "NoInfo")
      [] item.kind = "Data" /\ item.status = "Ok" -> Res("continue", "NoCode", "NoInfo")
      [] item.kind = "Continue" -> Res("continue", "NoCode", "NoInfo")
      [] item.kind = "Done" -> Res("continue", "NoCode", "NoInfo")
      [] OTHER -> Res("NewData", item.kind, "NoInfo")

\* The future of wait is polled, the token is alive and a response is there.
wait_poll ==
    /\ pc \in {"wait", "wait_timeout"}
    /\ \E item \in IdleItems :
        /\ read_from(item, IdleItems, MaxReads)
        /\ LET r == wait_step(item)
               h == handle_unilateral(item) IN
            IF r.kind = "continue"
            THEN /\ UNCHANGED <<pc, result>>
                 /\ IF item.kind = "Done" /\ h.push
                    THEN CanSend /\ unsolicited' = Append(unsolicited, h.msg)
                    ELSE UNCHANGED unsolicited
            ELSE /\ pc' = "idle"
                 /\ result' = r
                 /\ UNCHANGED unsolicited
    /\ UNCHANGED <<phase, request_ids, written, cur, rows>>

\* wait_interrupted that first takes a response from the stream.
wait_interrupted_late ==
    /\ pc \in {"wait_stopped", "wait_timeout_stopped"}
    /\ \E item \in IdleItems : read_from(item, IdleItems, MaxReads)
    /\ pc' = "idle"
    /\ result' = Res("ManualInterrupt", "NoCode", "NoInfo")
    /\ UNCHANGED <<phase, request_ids, written, cur, rows, unsolicited>>

\* The future of wait is polled after the StopSource was dropped: timeout_at
\* ends the stream before the inner stream is polled.
wait_interrupted ==
    /\ UNCHANGED svars
    /\ pc \in {"wait_stopped", "wait_timeout_stopped"}
    /\ pc' = "idle"
    /\ result' = Res("ManualInterrupt", "NoCode", "NoInfo")
    /\ UNCHANGED <<phase, request_ids, written, cur, rows, unsolicited,
                   inflight, last, nread, eof>>

\* A timeout that also fires when the StopSource was dropped.
timeout_elapsed_any ==
    /\ UNCHANGED svars
    /\ pc \in {"wait_timeout", "wait_timeout_stopped"}
    /\ pc' = "idle"
    /\ result' = Res("Timeout", "NoCode", "NoInfo")
    /\ UNCHANGED <<phase, request_ids, written, cur, rows, unsolicited,
                   inflight, last, nread, eof>>

\* wait_with_timeout: the duration elapses while the future of wait is
\* pending (timeout polls the future first, the timer second).
timeout_elapsed ==
    /\ UNCHANGED svars
    /\ pc = "wait_timeout"
    /\ pc' = "idle"
    /\ result' = Res("Timeout", "NoCode", "NoInfo")
    /\ UNCHANGED <<phase, request_ids, written, cur, rows, unsolicited,
                   inflight, last, nread, eof>>

\* done that writes the line twice.
done_twice ==
    /\ UNCHANGED svars
    /\ phase = "Idle"
    /\ pc = "idle"
    /\ IF cur.id = NoTag
       THEN /\ pc' = "panicked"
            /\ UNCHANGED written
       ELSE /\ pc' = "check_done_ok"
            /\ written' = written \o << Line(NoTag, "DONE", <<>>),
                                        Line(NoTag, "DONE", <<>>) >>
    /\ result' = ResNone
    /\ last' = NoItem
    /\ UNCHANGED <<phase, request_ids, cur, rows, unsolicited, inflight, nread, eof>>

\* Handle::done, up to check_done_ok: the assertion on id, then
\* run_command_untagged("DONE").
done ==
    /\ UNCHANGED svars
    /\ phase = "Idle"
    /\ pc = "idle"
    /\ IF cur.id = NoTag
       THEN /\ pc' = "panicked"
            /\ UNCHANGED written
       ELSE /\ pc' = "check_done_ok"
            /\ written' = Append(written, Line(NoTag, "DONE", <<>>))
    /\ result' = ResNone
    /\ last' = NoItem
    /\ UNCHANGED <<phase, request_ids, cur, rows, unsolicited, inflight, nread, eof>>

\* What goes to the unsolicited channel for a response: Other for what the
\* classifier does not recognise.
route(item) ==
    IF item.kind \in {"Status", "Recent", "Exists", "Expunge"}
    THEN [kind |-> item.kind, num |-> item.num]
    ELSE [kind |-> "Other", num |-> item.num]

\* Session::check_done_ok, one response: the completion of the IDLE command
\* is awaited as by check_ok, every other response goes to the channel.  On
\* success done returns the Session; on an error the Handle is gone.
check_done_ok ==
    /\ pc = "check_done_ok"
    /\ \E item \in IdleItems :
        /\ read_from(item, IdleItems, MaxReads)
        /\ IF item \in Responses /\ ~(item.kind = "Done" /\ item.tag = cur.id)
           THEN /\ CanSend
                /\ unsolicited' = Append(unsolicited, route(item))
                /\ UNCHANGED <<pc, result, phase>>
           ELSE /\ pc' = "idle"
                /\ result' = check_ok_step(item, cur.id)
                /\ phase' = IF result'.kind = "Ok" THEN "Auth" ELSE "Closed"
                /\ UNCHANGED unsolicited
    /\ UNCHANGED <<request_ids, written, cur, rows>>

----------------------------------------------------------------------------
(* The caller takes one response from Session::unsolicited_responses. *)

recv ==
    /\ UNCHANGED svars
    /\ phase = "Auth"
    /\ unsolicited # <<>>
    /\ unsolicited' = Tail(unsolicited)
    /\ UNCHANGED <<phase, request_ids, written, pc, cur, result, rows,
                   inflight, last, nread, eof>>

----------------------------------------------------------------------------
(* Client::secure: STARTTLS, then the underlying stream is taken out of the *)
(* ImapStream and wrapped in TLS.  The responses are read through          *)
(* poll_next; the first frame of the wire is the tagged OK of STARTTLS.    *)

secure ==
    /\ phase = "Unauth"
    /\ buffer.block # 0
    /\ run_command("secure", "STARTTLS", <<>>, <<>>, FALSE, "secure")

\* check_ok of secure polls the stream.
secure_poll_next == pc = "secure" /\ yielded = <<>> /\ poll_next
secure_poll_read == pc = "secure" /\ yielded = <<>> /\ poll_read

\* ImapStream::into_inner: whether the stream is handed over, given the
\* number of bytes in the buffer.
into_inner(used) == TRUE

\* check_ok of secure has its response: on the tagged OK the stream is
\* taken with into_inner, the ImapStream and its buffer are gone, and the
\* caller gets a new Client over the TLS stream; on an error the Client is
\* gone.
secure_handoff ==
    /\ pc = "secure"
    /\ ~polling
    /\ yielded # <<>>
    /\ pc' = "idle"
    /\ inflight' = inflight \ {cur.id}
    /\ IF yielded[1].kind = "Response" /\ into_inner(buffer.offset)
       THEN /\ result' = ResOk
            /\ call' = BufferCall("into_inner", buffer.offset, TRUE)
            /\ buffer' = [block |-> 0, offset |-> 0]
            /\ pool' = [pool EXCEPT ![buffer.block] = FreeBlock]
            /\ UNCHANGED phase
       ELSE /\ result' = Res("Io", "NoCode", "NoInfo")
            /\ phase' = "Closed"
            /\ UNCHANGED <<call, buffer, pool>>
    /\ UNCHANGED <<request_ids, written, cur, rows, unsolicited, last, nread, eof>>
    /\ UNCHANGED <<wire, cut, read_pos, decode_needs, yielded, polling, parser, fills>>

----------------------------------------------------------------------------
(* A command on a Session after the commands of the run. *)

check_again ==
    /\ phase = "Auth"
    /\ run_command_limit("check", "CHECK", <<>>, <<>>, TRUE, "check_ok", MaxCmds + 1)

----------------------------------------------------------------------------
(* GETMETADATA (extensions/metadata.rs). *)

\* What the server sends while the entries are collected.
MetadataItems ==
    DoneItems
    \cup { Item("Metadata", NoTag, "-", "NoCode", "NoInfo", n) : n \in Nums }
    \cup { Item("Exists", NoTag, "-", "NoCode", "NoInfo", 1) }
    \cup { IoErrItem, EofItem }

\* get_metadata_impl, up to parse_metadata: the mailbox goes through
\* validate_str(..).unwrap().
get_metadata(mbox) ==
    /\ phase = "Auth"
    /\ LET v == validate_str(mbox) IN
        IF ~v.ok
        THEN /\ pc = "idle"
             /\ pc' = "panicked"
             /\ cur' = Call("get_metadata", NoTag, FALSE, <<mbox>>)
             /\ result' = ResNone
             /\ rows' = <<>>
             /\ last' = NoItem
             /\ UNCHANGED <<phase, request_ids, written, unsolicited, inflight,
                            nread, eof>>
             /\ UNCHANGED svars
        ELSE run_command("get_metadata", "GETMETADATA", <<v.val>>, <<mbox>>,
                         TRUE, "metadata")

\* Whether take_while(filter_sync) lets a response pass: everything but the
\* completion of the command.
filter_sync(item, id) == ~(item.kind = "Done" /\ item.tag = id)

\* parse_metadata, one turn of `while let Some(Ok(resp))`: the loop ends on
\* anything that is not Some(Ok(..)), and the entries collected so far are
\* returned as Ok.
parse_metadata ==
    /\ pc = "metadata"
    /\ \E item \in MetadataItems :
        /\ read_from(item, MetadataItems, MaxReads)
        /\ IF item.kind \notin {"IoErr", "Eof"} /\ filter_sync(item, cur.id)
           THEN LET h == handle_unilateral(item) IN
                /\ rows' = IF item.kind = "Metadata"
                           THEN Append(rows, [kind |-> "Metadata", num |-> item.num])
                           ELSE rows
                /\ IF item.kind # "Metadata" /\ h.push
                   THEN CanSend /\ unsolicited' = Append(unsolicited, h.msg)
                   ELSE UNCHANGED unsolicited
                /\ UNCHANGED <<pc, result>>
           ELSE /\ pc' = "idle"
                /\ result' = ResOk
                /\ UNCHANGED <<rows, unsolicited>>
    /\ UNCHANGED <<phase, request_ids, written, cur>>

----------------------------------------------------------------------------
(* Connection::run_command alone, on a generator that has been in use. *)

Connection_run_command ==
    /\ Len(written) < MaxCmds
    /\ run_command_limit("run_command", "NOOP", <<>>, <<>>, FALSE, "idle",
                         MaxTags + MaxCmds)

----------------------------------------------------------------------------

Next ==
    \/ \E u \in Strs, p \in Strs : login(u, p)
    \/ authenticate
    \/ do_auth_handshake
    \/ do_auth_handshake_second
    \/ check_ok
    \/ logout
    \/ check
    \/ close
    \/ \E s \in Strs : create(s)
    \/ \E s \in Strs : delete(s)
    \/ \E s \in Strs, t \in Strs : rename(s, t)
    \/ \E s \in Strs : subscribe(s)
    \/ \E s \in Strs : unsubscribe(s)
    \/ \E s \in Strs : copy(s)
    \/ \E s \in Strs : uid_copy(s)
    \/ \E s \in Strs : mv(s)
    \/ \E s \in Strs : uid_mv(s)
    \/ \E s \in Strs : select(s)
    \/ \E s \in Strs : examine(s)
    \/ \E s \in Strs : status(s)
    \/ noop
    \/ expunge
    \/ uid_expunge
    \/ search
    \/ uid_search
    \/ fetch
    \/ uid_fetch
    \/ store
    \/ uid_store
    \/ \E r \in OptStrs, m \in OptStrs : list(r, m)
    \/ \E r \in OptStrs, m \in OptStrs : lsub(r, m)
    \/ parse_fetches
    \/ parse_names
    \/ \E s \in Strs, c \in Contents : append(s, c)
    \/ append_continue
    \/ append_completion
    \/ recv

Spec == Init /\ [][Next]_vars

\* The protocol core: one command of each kind of completion handling.
NextCore ==
    \/ \E u \in Strs, p \in Strs : login(u, p)
    \/ authenticate
    \/ do_auth_handshake
    \/ do_auth_handshake_second
    \/ check_ok
    \/ check
    \/ \E s \in Strs : mv(s)
    \/ fetch
    \/ \E r \in OptStrs, m \in OptStrs : list(r, m)
    \/ parse_fetches
    \/ parse_names
    \/ \E s \in Strs, c \in Contents : append(s, c)
    \/ append_continue
    \/ append_completion
    \/ recv

SpecCore == Init /\ [][NextCore]_vars

\* A server that sends nothing but `* 1 EXISTS` while the rows of a FETCH
\* are read.
BurstItems == { Item("Exists", NoTag, "-", "NoCode", "NoInfo", 1) }
parse_fetches_burst == pc = "fetches" /\ stream_poll("Fetch", BurstItems, MaxBurst)

\* The unsolicited channel under load.
NextChannel ==
    \/ authenticate
    \/ do_auth_handshake
    \/ do_auth_handshake_second
    \/ fetch
    \/ parse_fetches_burst
    \/ recv

SpecChannel == Init /\ [][NextChannel]_vars

\* A caller that takes the unsolicited responses only between commands,
\* and a server that sends `* 1 EXISTS` any number of times before the
\* tagged OK of the FETCH.
recv_between == pc = "idle" /\ recv
DrainItems ==
    BurstItems \cup { Item("Done", t, "Ok", "NoCode", "NoInfo", 0) : t \in ServerTags }
parse_fetches_drain == pc = "fetches" /\ stream_poll("Fetch", DrainItems, MaxBurst)

NextDrain ==
    \/ authenticate
    \/ do_auth_handshake
    \/ do_auth_handshake_second
    \/ fetch
    \/ parse_fetches_drain
    \/ recv_between

SpecDrain == Init /\ [][NextDrain]_vars

\* The IDLE sub-protocol on a session.
NextIdle ==
    \/ \E u \in { <<"a", "DQ", "BS">> } : login(u, u)
    \/ check_ok
    \/ idle
    \/ init
    \/ init_wait
    \/ wait
    \/ wait_with_timeout
    \/ drop_interrupt
    \/ wait_poll
    \/ wait_interrupted
    \/ timeout_elapsed
    \/ done
    \/ check_done_ok
    \/ recv

SpecIdle == Init /\ [][NextIdle]_vars

\* The operations of Buffer alone.
NextBuffer ==
    \/ Buffer_extend_used
    \/ Buffer_ensure_capacity
    \/ Buffer_reset_with_data

SpecBuffer == Init /\ [][NextBuffer]_vars

\* The response stream over a wire the server chose.
InitStream ==
    /\ Client_new
    /\ ImapStream_new
    /\ wire \in Wires
    /\ cut \in Cuts(wire)

NextStream ==
    \/ poll_next
    \/ poll_read
    \/ drop_response
    \/ drop_stream

SpecStream == InitStream /\ [][NextStream]_vars

\* The framed stream of codec.rs over a wire the server chose.
NextCodec ==
    \/ ImapCodec_poll_next
    \/ ImapCodec_poll_read

SpecCodec == InitStream /\ [][NextCodec]_vars

\* STARTTLS over a wire the server (or someone on the path) chose.
NextSecure ==
    \/ secure
    \/ secure_poll_next
    \/ secure_poll_read
    \/ secure_handoff

SpecSecure == InitStream /\ [][NextSecure]_vars

\* A session up to and past LOGOUT.
NextLogout ==
    \/ \E u \in { <<"a", "DQ", "BS">> } : login(u, u)
    \/ check_ok
    \/ logout
    \/ check
    \/ check_again

SpecLogout == Init /\ [][NextLogout]_vars

\* A session that asks for metadata.
NextMetadata ==
    \/ \E u \in { <<"a", "DQ", "BS">> } : login(u, u)
    \/ check_ok
    \/ \E m \in Strs : get_metadata(m)
    \/ parse_metadata
    \/ recv

SpecMetadata == Init /\ [][NextMetadata]_vars

\* LOGIN with any user name and password of at most MaxLen characters, none
\* of them CR or LF.
QuoteChars == {"a", "DQ", "BS"}
QuoteStrs == UNION { [1 .. n -> QuoteChars] : n \in 0 .. MaxLen }

NextQuote == \E u \in QuoteStrs, p \in QuoteStrs : login(u, p)

SpecQuote == Init /\ [][NextQuote]_vars

\* Commands on a connection whose generator has handed out any number of
\* tags.
InitTags ==
    /\ \E n \in 0 .. MaxTags : Connection_after(n)
    /\ ImapStream_new
    /\ wire = <<>>
    /\ cut = 0

NextTags == Connection_run_command

SpecTags == InitTags /\ [][NextTags]_vars

----------------------------------------------------------------------------
(* Vocabulary of the properties. *)

\* This step pulled one item from the response stream; it is last'.
ReadStep == nread' = nread + 1

IsDone(item) == item.kind = "Done"
OwnDone(item, id) == item.kind = "Done" /\ item.tag = id
ForeignDone(item, id) == item.kind = "Done" /\ item.tag # id

HasNewline(s) == Contains(s, "CR") \/ Contains(s, "LF")

\* The commands of run_command_and_check_ok on a Session.
CheckOkOps ==
    {"logout", "check", "close", "create", "delete", "rename", "subscribe",
     "unsubscribe", "copy", "uid_copy", "mv", "uid_mv"}

\* The commands that take a mailbox name, a user name or a password.
StringArgOps ==
    {"login", "select", "examine", "create", "delete", "rename", "subscribe",
     "unsubscribe", "copy", "uid_copy", "mv", "uid_mv", "status", "append", "list"}

----------------------------------------------------------------------------
(* C1: while check_ok waits for the completion of its command, a Done with *)
(* another tag never ends the wait, whatever its status; it is routed to   *)
(* the sink when one is given and discarded otherwise.                     *)
C1_ForeignDoneNeverEndsWait ==
    [][ (pc = "check_ok" /\ ReadStep /\ ForeignDone(last', cur.id)) =>
            /\ pc' = "check_ok"
            /\ cur.sink => Len(unsolicited') = Len(unsolicited) + 1
            /\ ~cur.sink => unsolicited' = unsolicited ]_vars

(* C2: every response other than the command's own tagged completion that  *)
(* a run_command_and_check_ok command of a Session receives is pushed to   *)
(* the unsolicited channel.                                                *)
C2_CheckOkRoutesEverything ==
    [][ (pc = "check_ok" /\ cur.op \in CheckOkOps /\ ReadStep
            /\ last' \in Responses /\ ~OwnDone(last', cur.id)) =>
            Len(unsolicited') = Len(unsolicited) + 1 ]_vars

(* C3: authenticate returns a Session only after the tagged OK of the      *)
(* AUTHENTICATE command has been consumed; once the tagged NO or BAD of    *)
(* that command has been consumed it never returns a Session, and what it  *)
(* returns is that error (with the Client).                                *)
C3_AuthenticateNeedsTaggedOk ==
    [][ /\ (cur.op = "authenticate" /\ phase = "Unauth" /\ phase' = "Auth") =>
                \/ (OwnDone(last, cur.id) /\ last.status = "Ok")
                \/ (OwnDone(last', cur.id) /\ last'.status = "Ok")
        /\ (cur.op = "authenticate" /\ pc # "idle" /\ ReadStep
                /\ \/ (OwnDone(last, cur.id) /\ last.status \in {"No", "Bad"})
                   \/ (OwnDone(last', cur.id) /\ last'.status \in {"No", "Bad"})) =>
                /\ phase' = "Unauth"
                /\ pc' = "idle" => result'.kind \in {"No", "Bad"} ]_vars

(* C4: a tagged command is written only when no earlier tagged command is  *)
(* still waiting for its completion (the operations before it returned     *)
(* normally).                                                              *)
C4_OneCommandInFlight ==
    [][ (request_ids' = request_ids + 1 /\ result.kind \in {"None", "Ok", "StreamEnd"}) =>
            inflight = {} ]_vars

(* C5: check_ok ends on the Done that carries its tag, with success for OK, *)
(* Error::No with code and information for NO, Error::Bad with the same    *)
(* for BAD and an I/O error for any other status; the end of the stream    *)
(* gives ConnectionLost; success comes from nothing but the own tagged OK, *)
(* ConnectionLost from nothing but the end of the stream.                  *)
C5_CheckOkOutcome ==
    [][ (pc = "check_ok" /\ ReadStep) =>
            /\ OwnDone(last', cur.id) =>
                /\ pc' = "idle"
                /\ result' = CASE last'.status = "Ok" -> Res("Ok", "NoCode", "NoInfo")
                               [] last'.status = "No" -> Res("No", last'.code, last'.info)
                               [] last'.status = "Bad" -> Res("Bad", last'.code, last'.info)
                               [] OTHER -> Res("Io", last'.code, last'.info)
            /\ last'.kind = "Eof" =>
                /\ pc' = "idle"
                /\ result'.kind = "ConnectionLost"
            /\ (pc' = "idle" /\ result'.kind = "Ok") =>
                (OwnDone(last', cur.id) /\ last'.status = "Ok")
            /\ (pc' = "idle" /\ result'.kind = "ConnectionLost") => last'.kind = "Eof" ]_vars

\* check_ok returned Error::No with the code and the information of the NO
\* that carried its tag.
C5_Witness ==
    /\ pc = "idle" /\ cur.op = "check"
    /\ OwnDone(last, cur.id) /\ last.status = "No"
    /\ result = Res("No", "c1", "i1")

(* C6: a LOGIN answered by its tagged NO or BAD returns the error and the  *)
(* Client, with the completion consumed; the next login on that Client is  *)
(* written with the next tag, and a login succeeds only on the tagged OK   *)
(* that carries its own tag.                                               *)
C6_LoginRetry ==
    [][ /\ (cur.op = "login" /\ pc = "check_ok" /\ ReadStep
                /\ OwnDone(last', cur.id) /\ last'.status \in {"No", "Bad"}) =>
                /\ pc' = "idle"
                /\ phase' = "Unauth"
                /\ result' = Res(last'.status, last'.code, last'.info)
                /\ cur.id \notin inflight'
        /\ (cur.op = "login" /\ pc = "idle" /\ phase = "Unauth"
                /\ result.kind \in {"No", "Bad"}
                /\ request_ids' = request_ids + 1 /\ cur'.op = "login") =>
                /\ cur'.id # cur.id
                /\ pc' = "check_ok"
                /\ written' = Append(written,
                       Line(cur'.id, "LOGIN", <<quote(cur'.args[1]), quote(cur'.args[2])>>))
        /\ (cur.op = "login" /\ phase = "Unauth" /\ phase' = "Auth") =>
                (OwnDone(last', cur.id) /\ last'.status = "Ok") ]_vars

\* A second login, written with the tag A0002, has succeeded on the Client
\* that the failed first login gave back.
C6_Witness ==
    /\ phase = "Auth" /\ pc = "idle" /\ cur.op = "login"
    /\ Len(written) = 2
    /\ written[1].verb = "LOGIN" /\ written[1].tag = <<"A", "0", "0", "0", "1">>
    /\ written[2].verb = "LOGIN" /\ written[2].tag = <<"A", "0", "0", "0", "2">>
    /\ cur.id = written[2].tag
    /\ inflight = {}

(* C7: a command whose mailbox name, user name or password contains CR or  *)
(* LF fails with a Validate error and writes nothing.                      *)
C7_NewlineRejectedBeforeWrite ==
    [][ (pc = "idle" /\ cur' # cur /\ cur'.op \in StringArgOps
            /\ \E i \in 1..Len(cur'.args) : HasNewline(cur'.args[i])) =>
            /\ result'.kind = "Validate"
            /\ written' = written ]_vars

(* C8: in append the literal is written only in answer to a Continue; a    *)
(* first response that is no Continue makes append fail with Error::Append *)
(* and nothing is written.                                                 *)
C8_LiteralOnlyAfterContinue ==
    [][ /\ (pc = "append_continue" /\ ReadStep
                /\ last' \in Responses /\ last'.kind # "Continue") =>
                /\ pc' = "idle"
                /\ result'.kind = "Append"
                /\ written' = written
        /\ (Len(written') > Len(written) /\ written'[Len(written')].verb = "LITERAL") =>
                /\ pc = "append_continue"
                /\ ReadStep
                /\ last'.kind = "Continue"
                /\ written' = Append(written, Line(NoTag, "LITERAL", <<cur.args[2]>>)) ]_vars

\* append failed with Error::Append on a tagged NO that came instead of the
\* Continue, and only the APPEND line was written.
C8_Witness ==
    /\ pc = "idle" /\ cur.op = "append"
    /\ result.kind = "Append"
    /\ IsDone(last) /\ last.status = "No"
    /\ written[Len(written)].verb = "APPEND"

(* C9: append resolves to success only by consuming the tagged OK that     *)
(* carries the tag of the APPEND command.                                  *)
C9_AppendNeedsTaggedOk ==
    [][ (cur.op = "append" /\ pc # "idle" /\ pc' = "idle" /\ result'.kind = "Ok") =>
            (OwnDone(last', cur.id) /\ last'.status = "Ok") ]_vars

(* C10: the result stream of a command ends exactly when the Done with the *)
(* command's own tag is consumed; a Done with another tag neither ends it  *)
(* nor appears in it.                                                      *)
C10_StreamEndsOnOwnDone ==
    [][ (pc \in {"fetches", "names"} /\ ReadStep /\ last' \in Responses) =>
            /\ (pc' = "idle") <=> OwnDone(last', cur.id)
            /\ ForeignDone(last', cur.id) => rows' = rows ]_vars

(* C11: a result sequence yields exactly the data items of its command, in *)
(* wire order: while the rows of a FETCH or STORE are read, an untagged    *)
(* FETCH adds one row at the end and every other untagged response is      *)
(* pushed to the unsolicited channel and adds no row; EXPUNGE returns its  *)
(* sequence of numbers.                                                    *)
C11_ResultSequenceYieldsData ==
    [][ /\ (pc = "fetches" /\ ReadStep /\ last' \in Responses /\ ~IsDone(last')) =>
                IF last'.kind = "Fetch"
                THEN /\ Len(rows') = Len(rows) + 1
                     /\ SubSeq(rows', 1, Len(rows)) = rows
                     /\ rows'[Len(rows')].kind = "Fetch"
                     /\ rows'[Len(rows')].num = last'.num
                     /\ unsolicited' = unsolicited
                ELSE /\ rows' = rows
                     /\ Len(unsolicited') = Len(unsolicited) + 1
        /\ (cur'.op \in {"expunge", "uid_expunge"}) => pc' # "panicked" ]_vars

(* C12: when the rows of a command are read and the Done with the          *)
(* command's own tag has status NO or BAD, the caller gets the error No or *)
(* Bad: the sequence does not end as after a success.                      *)
C12_FailedCompletionIsReported ==
    [][ (pc \in {"fetches", "names"} /\ ReadStep
            /\ OwnDone(last', cur.id) /\ last'.status \in {"No", "Bad"}) =>
            result'.kind = last'.status ]_vars

(* C13: the row yielded for an untagged FETCH carries the sequence number  *)
(* of the response, and its uid and size are the UID and RFC822.SIZE       *)
(* attributes of the response, None when the response has none.            *)
C13_FetchRowCarriesUidAndSize ==
    [][ (pc = "fetches" /\ ReadStep /\ last'.kind = "Fetch") =>
            /\ Len(rows') = Len(rows) + 1
            /\ LET r == rows'[Len(rows')] IN
                /\ r.num = last'.num
                /\ r.uid = attr_fold(last'.attrs, "Uid", None)
                /\ r.size = attr_fold(last'.attrs, "Rfc822Size", None) ]_vars

\* The responses that handle_unilateral forwards, and what it makes of them.
Routed(item) == item.kind \in {"Status", "Recent", "Exists", "Expunge"}
Unsolicited(item) == [kind |-> item.kind, num |-> item.num]

(* C14: the unsolicited channel never holds more than 100 responses; while *)
(* it is full the reader consumes no response that is to be pushed, until  *)
(* the caller has received one; a response that is pushed is added at the  *)
(* end and nothing already in the channel is dropped or overwritten.       *)
C14_ChannelBounded ==
    [][ /\ Len(unsolicited) <= ChannelCapacity
        /\ Len(unsolicited') <= ChannelCapacity
        /\ (Len(unsolicited) = ChannelCapacity /\ ReadStep) => ~Routed(last')
        /\ (Len(unsolicited') > Len(unsolicited)) =>
                /\ Len(unsolicited') = Len(unsolicited) + 1
                /\ SubSeq(unsolicited', 1, Len(unsolicited)) = unsolicited ]_vars

\* The channel was filled, the caller received one response and the reader
\* pushed the next one: the channel is full again after 101 pushes.
C14_Witness ==
    /\ pc = "fetches"
    /\ Len(written) = 3
    /\ nread = ChannelCapacity + 2
    /\ Len(unsolicited) = ChannelCapacity

(* C15: the caller receives the unsolicited responses in the order of the  *)
(* wire: a response is pushed in the step that reads it, at the end of the *)
(* channel and as what it is, and the caller takes the first of the        *)
(* channel.                                                                *)
C15_ChannelKeepsWireOrder ==
    [][ (unsolicited' # unsolicited) =>
            \/ /\ ReadStep
               /\ Routed(last')
               /\ unsolicited' = Append(unsolicited, Unsolicited(last'))
            \/ /\ ~ReadStep
               /\ unsolicited # <<>>
               /\ unsolicited' = Tail(unsolicited) ]_vars

\* Two different responses were read and pushed: they are in the channel in
\* the order of the wire, the one read last at the end.
C15_Witness ==
    /\ pc = "fetches"
    /\ Len(unsolicited) = 2
    /\ unsolicited[1].kind = "Expunge"
    /\ unsolicited[2] = Unsolicited(last)
    /\ last.kind = "Exists"

\* The responses that the future of wait consumes silently.
Silent(item) == (item.kind = "Data" /\ item.status = "Ok") \/ item.kind = "Continue"
WaitPending == pc \in {"wait", "wait_timeout"}
WaitStopped == pc \in {"wait_stopped", "wait_timeout_stopped"}

(* C16: init writes the tagged IDLE command; it returns success exactly on *)
(* a Continue; the BAD that carries the tag of the IDLE, or the end of the *)
(* stream, makes it fail with ConnectionRefused; every other response      *)
(* received meanwhile is pushed to the unsolicited channel.                *)
C16_InitReturnsOnContinue ==
    [][ /\ (cur' # cur /\ cur'.op = "init") =>
                written' = Append(written, Line(cur'.id, "IDLE", <<>>))
        /\ (pc = "init" /\ ReadStep) =>
            /\ last'.kind = "Continue" => (pc' = "idle" /\ result'.kind = "Ok")
            /\ (pc' = "idle" /\ result'.kind = "Ok") => last'.kind = "Continue"
            /\ ((OwnDone(last', cur.id) /\ last'.status = "Bad") \/ last'.kind = "Eof") =>
                    (pc' = "idle" /\ result'.kind = "ConnectionRefused")
            /\ (last' \in Responses /\ last'.kind # "Continue"
                    /\ ~(OwnDone(last', cur.id) /\ last'.status = "Bad")) =>
                    (pc' = "init" /\ Len(unsolicited') = Len(unsolicited) + 1) ]_vars

(* C17: the future of wait resolves to NewData(v) for the first response v *)
(* that is no untagged OK, no Continue and no Done; an untagged OK or a    *)
(* Continue before it is consumed silently, a Done is pushed to the        *)
(* unsolicited channel, and the future stays pending on each of them.      *)
C17_WaitResolvesToFirstNewData ==
    [][ (WaitPending /\ ReadStep /\ last' \in Responses) =>
            IF Silent(last')
            THEN pc' = pc /\ unsolicited' = unsolicited
            ELSE IF IsDone(last')
            THEN pc' = pc /\ Len(unsolicited') = Len(unsolicited) + 1
            ELSE /\ pc' = "idle"
                 /\ result' = Res("NewData", last'.kind, "NoInfo")
                 /\ unsolicited' = unsolicited ]_vars

(* C18: once the token is dropped while the future of wait is pending, the *)
(* future resolves to ManualInterrupt at its next poll, and no response is *)
(* taken from the server for it.                                           *)
C18_DroppedTokenInterrupts ==
    [][ /\ (WaitPending /\ pc' # pc /\ ~ReadStep /\ result' = result) => WaitStopped'
        /\ WaitStopped =>
            /\ ~ReadStep
            /\ pc' # pc =>
                /\ pc' = "idle"
                /\ result'.kind = "ManualInterrupt"
                /\ last' = last /\ nread' = nread /\ written' = written ]_vars

\* wait has resolved to ManualInterrupt and no response was read since the
\* future was created: the stream has not ended, the token was dropped.
C18_Witness ==
    /\ phase = "Idle" /\ pc = "idle"
    /\ result.kind = "ManualInterrupt"
    /\ last = NoItem
    /\ ~eof

C20_TimeoutOnlyWhenElapsed ==
    [][ /\ (pc = "wait_timeout" /\ pc' = "idle" /\ ~ReadStep) =>
                result'.kind = "Timeout"
        /\ (result'.kind = "Timeout" /\ pc' # pc) =>
            /\ pc = "wait_timeout"
            /\ pc' = "idle"
            /\ ~ReadStep ]_vars

\* wait_with_timeout has resolved to Timeout on an initialised handle.
C20_Witness ==
    /\ phase = "Idle" /\ pc = "idle"
    /\ cur.op = "init"
    /\ result.kind = "Timeout"

----------------------------------------------------------------------------
(* Properties of the byte layer. *)

\* The buffer as spec.md describes it: used, capacity, free tail.
Used == buffer.offset
Capacity == pool[buffer.block].size
FreeTail == Capacity - Used
LastYield == yielded[Len(yielded)]
\* The step is a poll that returns.
Returns == Len(yielded') = Len(yielded) + 1
\* The step is a turn of the read loop whose read returned zero bytes.
ZeroByteRead ==
    /\ polling
    /\ fills' = fills + 1
    /\ call'.ok
    /\ read_pos' = read_pos
\* An earlier poll ended on a zero-byte read.
SawEof == \E k \in 1 .. Len(yielded) : yielded[k].kind \in {"End", "UnexpectedEof"}

\* C29: in every state of the buffer used <= capacity <= 512 MiB, and a
\* growth that fails was one beyond 512 MiB and leaves the buffer as it was.
C29_BufferWithinCeiling ==
    /\ [](buffer.block # 0 => Used <= Capacity /\ Capacity <= MAX_CAPACITY)
    /\ [][fills' = fills + 1 /\ call'.op = "ensure_capacity" /\ ~call'.ok =>
            /\ buffer' = buffer
            /\ pool' = pool
            /\ \/ call'.arg > MAX_CAPACITY
               \/ Capacity + BLOCK_SIZE > MAX_CAPACITY]_vars

C29_Witness ==
    /\ call.op = "ensure_capacity"
    /\ ~call.ok
    /\ Used > 0

\* C30 as stated: after a successful ensure_capacity(k) the free tail holds
\* at least max(1, k) bytes.
C30_FreeTailAtLeastRequired ==
    [][fills' = fills + 1 /\ call'.op = "ensure_capacity" /\ call'.ok =>
            FreeTail' >= Max(1, call'.arg)]_vars

\* C30: after a successful ensure_capacity(k) the free tail holds at least
\* one byte and the capacity of the buffer is at least k.
C30_CapacityAtLeastRequired ==
    [][fills' = fills + 1 /\ call'.op = "ensure_capacity" /\ call'.ok =>
            /\ FreeTail' >= 1
            /\ Capacity' >= call'.arg]_vars

C30_Witness ==
    /\ call.op = "ensure_capacity"
    /\ call.ok
    /\ call.arg > FreeTail
    /\ Used > 0

\* The responses poll_next has yielded, in the order of the polls.
YieldedResponses == SelectSeq(yielded, LAMBDA y : y.kind = "Response")
\* The frames that lie whole within the first n bytes of the wire.
FramesWithin(n) == { i \in 1 .. Len(wire) : FrameEnd(wire, i) <= n }

\* C21: a zero-byte read of the underlying stream makes the poll return
\* UnexpectedEof when the buffer holds bytes and end-of-stream when it is
\* empty, and neither is returned on anything but a zero-byte read.
C21_ZeroReadDiscriminates ==
    [][ /\ ZeroByteRead =>
            /\ Returns
            /\ LastYield'.kind = IF Used > 0 THEN "UnexpectedEof" ELSE "End"
        /\ (Returns /\ LastYield'.kind \in {"UnexpectedEof", "End"}) =>
            ZeroByteRead ]_vars

\* The stream closed inside a frame: the poll returned UnexpectedEof after
\* an earlier one yielded a response.
C21_Witness ==
    /\ Len(yielded) >= 2
    /\ yielded[1].kind = "Response"
    /\ LastYield.kind = "UnexpectedEof"
    /\ Used > 0
    /\ read_pos = cut

\* C22: once a poll has ended on a zero-byte read, every later poll returns
\* end-of-stream.
C22_EndOfStreamAfterEof ==
    [][(SawEof /\ Returns) => LastYield'.kind = "End"]_vars

\* C23: the responses yielded are the frames of the wire, one after the
\* other from the first on, each only once all its bytes were read; and
\* when the stream reports the end, every frame the server sent whole was
\* yielded.
C23_ResponsesInWireOrder ==
    /\ \A k \in 1 .. Len(YieldedResponses) :
        /\ YieldedResponses[k].frame = k
        /\ FrameEnd(wire, k) <= read_pos
    /\ SawEof => Len(YieldedResponses) = Cardinality(FramesWithin(cut))

\* Two responses were yielded, the first from a block that had grown and
\* that held bytes of the second, and then the end of the stream.
C23_Witness ==
    /\ Len(YieldedResponses) = 2
    /\ yielded[1].n > BLOCK_SIZE
    /\ yielded[1].n > wire[1].len
    /\ LastYield.kind = "End"
    /\ fills >= 3

\* C24: a response the caller holds owns its block: the block is not the
\* buffer's, it belongs to no one else, and it holds the bytes it held when
\* the response was yielded, the frame of the response among them.
C24_ResponseOwnsBlock ==
    \A k \in 1 .. Len(yielded) :
        (yielded[k].kind = "Response" /\ yielded[k].held) =>
            LET y == yielded[k] IN
            /\ y.block # buffer.block
            /\ \A j \in 1 .. Len(yielded) :
                (j # k /\ yielded[j].kind = "Response" /\ yielded[j].held) =>
                    yielded[j].block # y.block
            /\ pool[y.block].owner = "response"
            /\ pool[y.block].lo = y.lo
            /\ pool[y.block].n = y.n
            /\ y.lo <= FrameStart(wire, y.frame)
            /\ FrameEnd(wire, y.frame) <= y.lo + y.n - 1

\* Two responses are held, the second decoded after further reads, and the
\* stream has been dropped.
C24_Witness ==
    /\ buffer.block = 0
    /\ Len(yielded) >= 2
    /\ yielded[1].kind = "Response" /\ yielded[1].held
    /\ yielded[2].kind = "Response" /\ yielded[2].held
    /\ read_pos > yielded[1].lo + yielded[1].n - 1

----------------------------------------------------------------------------
(* Properties of STARTTLS, LOGOUT, error propagation and tags. *)

\* C25: the handoff of the underlying stream after the tagged OK of
\* STARTTLS succeeds only with an empty receive buffer.
C25_HandoffNeedsEmptyBuffer ==
    [][(pc = "secure" /\ pc' = "idle" /\ result'.kind = "Ok") => Used = 0]_vars

\* C26: once logout has returned Ok, no further line is written on the
\* connection.
C26_NothingWrittenAfterLogout ==
    [][(cur.op = "logout" /\ pc = "idle" /\ result.kind = "Ok") =>
            written' = written]_vars

\* C27: when the response stream produces an error while a command collects
\* its responses, the command ends and returns an error.
C27_StreamErrorIsReturned ==
    [][(ReadStep /\ last'.kind = "IoErr") =>
            (pc' = "idle" /\ result'.kind = "Io")]_vars

DigitValue(c) == CHOOSE d \in 0 .. 9 : Digit(d) = c
TagNumber(tag) ==
    1000 * DigitValue(tag[2]) + 100 * DigitValue(tag[3])
    + 10 * DigitValue(tag[4]) + DigitValue(tag[5])

\* C28: the n-th command of a connection is written as one line whose tag
\* is `A` followed by four decimal digits that read n mod 10000.
C28_TagOfNthCommand ==
    [][request_ids' = request_ids + 1 =>
            LET l == written'[Len(written')] IN
            /\ Len(written') = Len(written) + 1
            /\ Len(l.tag) = 5
            /\ l.tag[1] = "A"
            /\ \A k \in 2 .. 5 : \E d \in 0 .. 9 : l.tag[k] = Digit(d)
            /\ TagNumber(l.tag) = request_ids' % 10000]_vars

\* The generator has wrapped: A9999 is followed by A0000.
C28_Witness ==
    /\ Len(written) = 2
    /\ written[1].tag = <<"A", "9", "9", "9", "9">>
    /\ written[2].tag = <<"A", "0", "0", "0", "0">>

----------------------------------------------------------------------------
(* Further properties of the byte layer. *)

\* The step is a turn of the read loop that reads the underlying stream.
ReadsStream == polling /\ fills' = fills + 1 /\ call'.ok
\* The free slice the read of that turn is given.
FreeSliceGiven == pool'[buffer.block].size - buffer.offset

\* C31: every read of the underlying stream is given a free slice of at
\* least one byte, and a read of zero bytes happens only when the server has
\* closed the stream.
C31_ReadGetsFreeByte ==
    [][ /\ ReadsStream => FreeSliceGiven >= 1
        /\ ZeroByteRead => read_pos = cut ]_vars

\* A read was made after the buffer had been filled to its last byte with
\* no size known: the block was grown by one block for it.
C31_Witness ==
    /\ call.op = "ensure_capacity"
    /\ call.ok
    /\ call.arg = 0
    /\ Used > BLOCK_SIZE
    /\ Capacity = 2 * BLOCK_SIZE

\* The step runs a decode, on a buffer of UsedAtDecode bytes.
DecodeStep ==
    /\ buffer.block # 0
    /\ \/ ~polling /\ (polling' \/ Returns)
       \/ polling /\ read_pos' > read_pos
UsedAtDecode == buffer.offset + (read_pos' - read_pos)

\* C32: a decode calls the parser exactly when the buffer holds at least
\* decode_needs bytes; after Incomplete(min) decode_needs is used + min,
\* after Incomplete(unknown) and after a response it is 0, and a decode that
\* does not call the parser leaves it as it is.
C32_DecodeNeedsGatesParser ==
    [][DecodeStep =>
        /\ (parser'.report = "skipped") <=> (UsedAtDecode < decode_needs)
        /\ parser'.report = "Size" =>
                decode_needs' = UsedAtDecode + parser'.min
        /\ parser'.report \in {"Unknown", "Ok"} => decode_needs' = 0
        /\ parser'.report = "skipped" => decode_needs' = decode_needs]_vars

\* An earlier poll yielded a parse error.
SawParseError == \E k \in 1 .. Len(yielded) : yielded[k].kind = "ParseError"

\* C33: a poll that yields a parse error leaves the bytes the parser
\* rejected in the buffer, and every later poll yields a parse error again,
\* without a read and with the buffer as it was.
C33_ParseErrorPoisons ==
    [][ /\ (Returns /\ LastYield'.kind = "ParseError") =>
            /\ Used' > 0
            /\ parse_response(pool'[buffer'.block].lo, Used').kind = "Error"
        /\ (SawParseError /\ Returns) =>
            /\ LastYield'.kind = "ParseError"
            /\ buffer' = buffer
            /\ pool' = pool
            /\ read_pos' = read_pos ]_vars

\* After a response, a rejected line was reported on two polls in a row,
\* with bytes of the server still unread.
C33_Witness ==
    /\ Len(yielded) = 3
    /\ yielded[1].kind = "Response"
    /\ yielded[2].kind = "ParseError"
    /\ yielded[3].kind = "ParseError"
    /\ Used > 0
    /\ read_pos < cut

\* s with a backslash in front of every backslash and every double quote.
RECURSIVE Escaped(_)
Escaped(s) ==
    IF s = <<>> THEN <<>>
    ELSE (IF Head(s) \in {"BS", "DQ"} THEN <<"BS", Head(s)>> ELSE <<Head(s)>>)
         \o Escaped(Tail(s))

\* q read from the left, a backslash standing for the character after it.
RECURSIVE Unescaped(_)
Unescaped(q) ==
    IF q = <<>> THEN <<>>
    ELSE IF Head(q) = "BS" /\ Len(q) >= 2
         THEN <<q[2]>> \o Unescaped(SubSeq(q, 3, Len(q)))
         ELSE <<Head(q)>> \o Unescaped(Tail(q))

\* What stands between the first and the last character of q.
Inner(q) == SubSeq(q, 2, Len(q) - 1)

\* The LOGIN line that is on the wire, and the strings it was called with.
LoginSent == cur.op = "login" /\ pc = "check_ok"
NoCrLf(s) == ~Contains(s, "CR") /\ ~Contains(s, "LF")

\* C34: a LOGIN whose user name and password hold no CR and no LF is sent,
\* each string as a double quote, the string with every backslash and every
\* double quote preceded by a backslash, and a double quote; undoing the
\* escaping gives the string back, and different strings are sent as
\* different quoted forms.
C34_QuoteRoundTrip ==
    /\ (cur.op = "login" /\ \A i \in 1 .. 2 : NoCrLf(cur.args[i])) => LoginSent
    /\ LoginSent =>
        LET sent == written[Len(written)].args IN
        /\ \A i \in 1 .. 2 :
            /\ NoCrLf(cur.args[i])
            /\ sent[i] = <<"DQ">> \o Escaped(cur.args[i]) \o <<"DQ">>
            /\ Unescaped(Inner(sent[i])) = cur.args[i]
        /\ cur.args[1] # cur.args[2] => sent[1] # sent[2]

\* LOGIN with a backslash before a double quote as the user name and a
\* double quote before a backslash as the password is on the wire.
C34_Witness ==
    /\ LoginSent
    /\ cur.args = << <<"BS", "DQ">>, <<"DQ", "BS">> >>

\* The kind of response that the stream being read maps to a row.
OwnKind == IF pc = "fetches" THEN "Fetch" ELSE "List"

\* An untagged response that handle_unilateral has no arm for.
Unrecognised(item) == item.kind \in {"List", "Fetch", "Data"}

\* C35: while the rows of a command are read, an untagged response that is
\* neither STATUS, RECENT, EXISTS or EXPUNGE nor a data item of the command
\* is pushed on the unsolicited channel as Other, and the stream of the
\* command gets no row (in particular no error) from it and goes on.
C35_UnrecognisedGoesToOther ==
    [][ (pc \in {"fetches", "names"} /\ ReadStep /\ Unrecognised(last')
            /\ last'.kind # OwnKind) =>
            /\ Len(unsolicited') = Len(unsolicited) + 1
            /\ unsolicited'[Len(unsolicited')].kind = "Other"
            /\ rows' = rows
            /\ pc' = pc ]_vars

\* The handshake of AUTHENTICATE is reading the server's answers.
InHandshake == cur.op = "authenticate" /\ pc \in {"auth_first", "auth_second"}

\* C36: during the handshake of AUTHENTICATE every challenge that decodes is
\* answered by one untagged response line, written when the challenge is
\* consumed, and the handshake goes on to the next answer of the server (so
\* the line after the i-th challenge is the i-th line); an answer that is no
\* challenge makes the client write nothing; the tagged completion of the
\* command ends the handshake.
C36_EveryChallengeAnswered ==
    [][ (InHandshake /\ ReadStep) =>
            /\ (last'.kind = "Continue" /\ last'.info # "notb64") =>
                    /\ written' = Append(written, Line(NoTag, "AUTHRESPONSE", <<>>))
                    /\ pc' # "idle"
            /\ last'.kind # "Continue" => written' = written
            /\ OwnDone(last', cur.id) => pc' = "idle" ]_vars

\* C37: a command that reads its responses is always able to consume the
\* next unsolicited response the server has sent, so that it gets to its
\* tagged completion, with a caller that takes responses from the channel
\* only between commands.
C37_CommandNeverBlocked ==
    (pc = "fetches" /\ nread < MaxBurst) =>
        ENABLED (parse_fetches_drain /\ last' \in BurstItems)

\* C38: the future of wait resolves to ManualInterrupt only after the
\* StopSource was dropped; when the stream ends while the StopSource is
\* held, the future resolves to an error.
C38_ManualInterruptNeedsDrop ==
    [][ /\ ((WaitPending \/ WaitStopped) /\ pc' = "idle"
                /\ result'.kind = "ManualInterrupt") => WaitStopped
        /\ (WaitPending /\ ReadStep /\ last'.kind = "Eof") =>
                (pc' = "idle" /\ result'.kind \in {"ConnectionLost", "Io"}) ]_vars

\* C39: init returns when it consumes the tagged completion of its IDLE
\* command: the tagged NO or OK that carries the tag of the IDLE ends init.
C39_InitEndsOnTaggedCompletion ==
    [][ (pc = "init" /\ ReadStep /\ OwnDone(last', cur.id)
            /\ last'.status \in {"No", "Ok"}) => pc' = "idle" ]_vars

\* The bytes of the buffer begin with a complete response.
HoldsResponse ==
    /\ buffer.block # 0
    /\ Used > 0
    /\ parse_response(pool[buffer.block].lo, Used).kind = "Ok"

\* C40: a poll of a stream whose buffer begins with a complete response
\* yields that response without a read of the underlying stream, and the
\* underlying stream is never read while the buffer begins with a complete
\* response.
C40_BufferedResponseYielded ==
    [][ /\ (HoldsResponse /\ ~polling /\ (polling' \/ Returns)) =>
            /\ Returns
            /\ LastYield'.kind = "Response"
            /\ LastYield'.lo = pool[buffer.block].lo
            /\ read_pos' = read_pos
            /\ fills' = fills
        /\ ReadsStream => ~HoldsResponse ]_vars

\* One read brought two responses: both were yielded and the underlying
\* stream was read once.
C40_Witness ==
    /\ Len(yielded) = 2
    /\ yielded[1].kind = "Response"
    /\ yielded[2].kind = "Response"
    /\ fills = 1

====
